---------------------------- MODULE Spec2Model ----------------------------
(***************************************************************************)
(* Backup scheduler of the pgAdmin 4 enhancement: the scheduler thread     *)
(* (start / _run / restart_scheduler), the per-job next-run computation    *)
(* (calculate_next_run) and the calendar arithmetic it relies on.          *)
(*                                                                         *)
(* Instants are whole seconds since Monday 2024-01-01 00:00:00; the        *)
(* seconds field stands for everything datetime keeps below the minute.    *)
(***************************************************************************)
EXTENDS Integers, Sequences, FiniteSets, TLC

-----------------------------------------------------------------------------
(* Calendar arithmetic (Python datetime / timedelta).                      *)

None == 0 - 1      \* Python None for an absent instant (all instants are >= 0)

Epoch == [year |-> 2024, weekday |-> 0]      \* 2024-01-01 is a Monday (weekday() = 0)

SecsPerMinute == 60 * 1
SecsPerHour   == 60 * 60
SecsPerDay    == 24 * 60 * 60

IsLeap(y) == (y % 4 = 0 /\ y % 100 # 0) \/ y % 400 = 0

DaysInYear(y) == IF IsLeap(y) THEN 366 ELSE 365

DaysInMonth(y, m) ==
    IF m = 2 THEN (IF IsLeap(y) THEN 29 ELSE 28)
    ELSE IF m \in {4, 6, 9, 11} THEN 30 ELSE 31

\* number of days from the epoch to the first day of year y
RECURSIVE DaysBeforeYear(_)
DaysBeforeYear(y) ==
    IF y <= Epoch.year THEN 0 ELSE DaysBeforeYear(y - 1) + DaysInYear(y - 1)

\* number of days from 1 January of y to the first day of month m
RECURSIVE DaysBeforeMonth(_, _)
DaysBeforeMonth(y, m) ==
    IF m <= 1 THEN 0 ELSE DaysBeforeMonth(y, m - 1) + DaysInMonth(y, m - 1)

\* day number of the calendar date y-m-d
DayNumber(y, m, d) == DaysBeforeYear(y) + DaysBeforeMonth(y, m) + (d - 1)

RECURSIVE YearFrom(_, _)
YearFrom(n, y) == IF n < DaysInYear(y) THEN y ELSE YearFrom(n - DaysInYear(y), y + 1)

RECURSIVE MonthFrom(_, _, _)
MonthFrom(n, y, m) ==
    IF n < DaysInMonth(y, m) THEN m ELSE MonthFrom(n - DaysInMonth(y, m), y, m + 1)

\* the fields of an instant t
DayOf(t)    == t \div SecsPerDay
TodOf(t)    == t % SecsPerDay
HourOf(t)   == TodOf(t) \div SecsPerHour
MinuteOf(t) == (TodOf(t) % SecsPerHour) \div SecsPerMinute
SecondOf(t) == TodOf(t) % SecsPerMinute
YearOf(t)   == YearFrom(DayOf(t), Epoch.year)
MonthOf(t)  == MonthFrom(DayOf(t) - DaysBeforeYear(YearOf(t)), YearOf(t), 1)
DomOf(t)    == DayOf(t) - DayNumber(YearOf(t), MonthOf(t), 1) + 1
WeekdayOf(t) == (DayOf(t) + Epoch.weekday) % 7

\* datetime(y, m, d) + time-of-day
Instant(y, m, d, tod) == DayNumber(y, m, d) * SecsPerDay + tod

\* datetime.replace(hour=h, minute=mi): every other field is kept
ReplaceHourMinute(t, h, mi) ==
    DayOf(t) * SecsPerDay + h * SecsPerHour + mi * SecsPerMinute + SecondOf(t)

Min(S) == CHOOSE x \in S : \A y \in S : x <= y

-----------------------------------------------------------------------------
(* BackupSchedulerJob and its next-run computation.                        *)
(* A job is a record                                                       *)
(*   [schedule_type, start_time, days, months, last_run, next_run, status] *)
(* days are weekday() numbers (Monday = 0), months are 1..12.              *)

Weekdays == 0 .. 6
Months   == 1 .. 12

\* first k in lo..hi for which the day now+k qualifies, None when there is none
RECURSIVE WeeklyScan(_, _, _)
WeeklyScan(job, nw, k) ==
    LET cand == (DayOf(nw) + k) * SecsPerDay + TodOf(job.start_time)
    IN  IF k > 7 THEN None
        ELSE IF WeekdayOf(cand) \in job.days /\ cand >= nw THEN cand
        ELSE WeeklyScan(job, nw, k + 1)

\* WeeklyNextRun that never takes today: the scan begins at tomorrow
WeeklyNextRunSkippingToday(job, nw) == WeeklyScan(job, nw, 1)

\* weekly branch of calculate_next_run: the nearest instant from now on
\* whose weekday is configured, at start_time's time of day
WeeklyNextRun(job, nw) == WeeklyScan(job, nw, 0)

\* MonthCandidate without the clamp: a day past the month's end runs over
\* into the next month, as day arithmetic does
MonthCandidateUnclamped(job, nw, i) ==
    Instant(YearOf(nw) + (i \div 12), (i % 12) + 1, DomOf(job.start_time),
            TodOf(job.start_time))

\* the run instant of month index i (0 = January of now's year, 12 = January
\* of the year after), the day of month clamped to the month's last day
MonthCandidate(job, nw, i) ==
    LET y == YearOf(nw) + (i \div 12)
        m == (i % 12) + 1
        d == IF DomOf(job.start_time) > DaysInMonth(y, m)
             THEN DaysInMonth(y, m) ELSE DomOf(job.start_time)
    IN  Instant(y, m, d, TodOf(job.start_time))

RECURSIVE MonthlyScan(_, _, _)
MonthlyScan(job, nw, i) ==
    IF i >= 24 THEN None
    ELSE IF ((i % 12) + 1) \in job.months /\ MonthCandidate(job, nw, i) >= nw
         THEN MonthCandidate(job, nw, i)
    ELSE MonthlyScan(job, nw, i + 1)

\* MonthlyNextRun that wraps to the first configured month without moving to
\* the next year
MonthlyNextRunNoYearBump(job, nw) ==
    LET r == MonthlyScan(job, nw, 0)
    IN  IF r # None /\ YearOf(r) > YearOf(nw)
        THEN Instant(YearOf(nw), MonthOf(r), DomOf(r), TodOf(r))
        ELSE r

\* monthly branch of calculate_next_run
MonthlyNextRun(job, nw) == MonthlyScan(job, nw, 0)

\* daily branch of calculate_next_run
DailyNextRun(job) ==
    ReplaceHourMinute(job.last_run, HourOf(job.start_time), MinuteOf(job.start_time))
        + SecsPerDay

\* calculate_next_run: the new value of job.next_run
calculate_next_run(job, nw) ==
    IF job.schedule_type = "daily" THEN DailyNextRun(job)
    ELSE IF job.schedule_type = "weekly" THEN WeeklyNextRun(job, nw)
    ELSE IF job.schedule_type = "monthly" THEN MonthlyNextRun(job, nw)
    ELSE job.next_run

\* next_run of a job that has not run yet, as registered at instant nw
InitialNextRun(job, nw) ==
    IF job.schedule_type = "one_time"
    THEN (IF job.start_time >= nw THEN job.start_time ELSE None)
    ELSE IF job.schedule_type = "daily"
    THEN (IF DayOf(nw) * SecsPerDay + TodOf(job.start_time) >= nw
          THEN DayOf(nw) * SecsPerDay + TodOf(job.start_time)
          ELSE (DayOf(nw) + 1) * SecsPerDay + TodOf(job.start_time))
    ELSE IF job.schedule_type = "weekly" THEN WeeklyNextRun(job, nw)
    ELSE MonthlyNextRun(job, nw)

NewJob(type, start, days, months, nw) ==
    LET j == [schedule_type |-> type, start_time |-> start, days |-> days,
              months |-> months, last_run |-> None, next_run |-> None,
              status |-> "Pending"]
    IN  [j EXCEPT !.next_run = InitialNextRun(j, nw)]


-----------------------------------------------------------------------------
(* State.                                                                  *)

VARIABLES
    running,    \* BackupScheduler.running
    pc,         \* pc[t]: where scheduler thread t is in _run ("off" = no such thread)
    cur,        \* cur[t]: index in the job list of the job thread t is visiting
    wake,       \* wake[t]: the instant from which thread t in "wait" may go on (0 once reached)
    jobs,       \* the scheduler's job list: a sequence of job records
    now,        \* the wall clock, datetime.now()
    api,        \* the request thread: "idle", or "restarting" between stop() and start()
    ticks,      \* number of clock advances so far
    calcJob,    \* next-run computation on its own: the job it is applied to
    calcNow,    \*   the instant passed to it
    calcPhase,  \*   "input", "registered" (first next_run computed), "ran" (recomputed)
    ids,        \* Job Store: ids[i] is the id of jobs[i]
    persisted,  \*   the ids the persistence collaborator holds
    cpc,        \*   cpc[c]: where API caller c is inside add(): "idle", "validated", "saved"
    creq,       \*   creq[c]: the job caller c is adding
    cres,       \*   cres[c]: what caller c's last operation returned
    diffSQL,    \* parseAndColorCodeDiff: its argument, a sequence of lines
    coloredDiff, \*   its result
    format,     \* ExportDialog: the format state
    quality,    \*   the quality state
    highResolution, \*   the highResolution state
    dlgOpen,    \*   the dialog is open
    exported,   \*   the arguments of the onExport call, once made
    width,      \* diagram export: the width of the image
    height,     \*   the height of the image
    isCut,      \*   the image was cut to the size limit
    sizePc,     \*   "idle", "measured", "scaled", "limited"
    initialized, \* ShowNodeSQL: this.initialized
    sqlVisible, \*   the SQL panel is visible
    subs,       \*   handlers showSQL registered for the tree selection event
    selected,   \*   the node selected in the tree, "none" for none
    timers,     \*   the pending timers set by showSQL: [id, node]
    timeout,    \*   this.timeout: the id of the timer set last, 0 before the first
    calls,      \*   number of timers set so far
    nodeProp,   \*   the node cached in the panel's data('node-prop')
    inflight,   \*   the nodes whose SQL request is in flight
    editor,     \*   the value of the SQL editor
    switches,   \* backup dialog: the value of every switch (state)
    rendered,   \*   per switch, whether it was disabled when last evaluated
    objects,    \* backup tree: the checked nodes, in the order they are visited
    selection   \*   what depChange returned for them

schedVars == <<running, pc, cur, wake, jobs, now, api, ticks>>
calcVars  == <<calcJob, calcNow, calcPhase>>
storeVars == <<ids, persisted, cpc, creq, cres>>
diffVars  == <<diffSQL, coloredDiff>>
dlgVars   == <<format, quality, highResolution, dlgOpen, exported>>
sizeVars  == <<width, height, isCut, sizePc>>
sqlVars   == <<initialized, sqlVisible, subs, selected, timers, timeout, calls,
               nodeProp, inflight, editor>>
swVars    == <<switches, rendered>>
treeVars  == <<objects, selection>>
uiVars    == <<sizeVars, sqlVars, swVars, treeVars>>
vars      == <<running, pc, cur, wake, jobs, now, api, ticks,
               calcJob, calcNow, calcPhase,
               ids, persisted, cpc, creq, cres,
               diffSQL, coloredDiff,
               format, quality, highResolution, dlgOpen, exported,
               uiVars>>

-----------------------------------------------------------------------------
(* The next-run computation applied to drawn inputs.                       *)

At(y, m, d, h, mi, s) == Instant(y, m, d, h * SecsPerHour + mi * SecsPerMinute + s)

\* the instants the computation is tried at: week days around a run time,
\* month ends, a leap day, a year end
CalcInstants ==
    { At(2024, 1, 1, 0, 0, 0),     \* Monday
      At(2024, 1, 3, 10, 0, 0),    \* Wednesday 10:00:00
      At(2024, 1, 4, 8, 59, 59),   \* Thursday, just before 09:00:00
      At(2024, 1, 4, 9, 0, 0),     \* Thursday 09:00:00
      At(2024, 1, 4, 9, 0, 17),
      At(2024, 1, 31, 23, 59, 30),
      At(2024, 2, 28, 9, 0, 0),
      At(2024, 2, 29, 12, 0, 0),
      At(2024, 3, 1, 0, 0, 0),
      At(2024, 5, 1, 8, 0, 0),
      At(2024, 12, 31, 23, 0, 30),
      At(2025, 1, 31, 9, 0, 0) }

\* the schedules it is tried on: <<schedule_type, start_time, days, months>>
CalcSchedules ==
    { <<"one_time", At(2024, 1, 4, 9, 0, 0), {}, {}>>,
      <<"daily",    At(2024, 1, 1, 9, 0, 0), {}, {}>>,
      <<"daily",    At(2024, 1, 1, 23, 30, 0), {}, {}>>,
      <<"weekly",   At(2024, 1, 1, 9, 0, 0), {0, 3}, {}>>,
      <<"weekly",   At(2024, 1, 1, 9, 0, 0), {3}, {}>>,
      <<"weekly",   At(2024, 1, 1, 0, 0, 0), {6}, {}>>,
      <<"monthly",  At(2024, 1, 30, 9, 0, 0), {}, {2, 4}>>,
      <<"monthly",  At(2024, 1, 31, 9, 0, 0), {}, {2}>>,
      <<"monthly",  At(2024, 1, 31, 9, 0, 0), {}, {4, 12}>>,
      <<"monthly",  At(2024, 1, 15, 9, 0, 0), {}, Months>> }

NoJob == [schedule_type |-> "none", start_time |-> None, days |-> {}, months |-> {},
          last_run |-> None, next_run |-> None, status |-> "Pending"]

CalcIdle ==
    /\ calcJob = NoJob
    /\ calcNow = None
    /\ calcPhase = "input"

SchedIdle ==
    /\ running = FALSE
    /\ pc = <<>>
    /\ cur = <<>>
    /\ wake = <<>>
    /\ jobs = <<>>
    /\ now = 0
    /\ api = "idle"
    /\ ticks = 0

SizeIdle ==
    /\ width = 0
    /\ height = 0
    /\ isCut = FALSE
    /\ sizePc = "idle"

SqlIdle ==
    /\ initialized = FALSE
    /\ sqlVisible = FALSE
    /\ subs = 0
    /\ selected = "none"
    /\ timers = {}
    /\ timeout = 0
    /\ calls = 0
    /\ nodeProp = "none"
    /\ inflight = {}
    /\ editor = ""

SwIdle ==
    /\ switches = <<>>
    /\ rendered = <<>>

TreeIdle ==
    /\ objects = <<>>
    /\ selection = [objects |-> <<>>]

UiIdle == SizeIdle /\ SqlIdle /\ SwIdle /\ TreeIdle

StoreIdle ==
    /\ ids = <<>>
    /\ persisted = {}
    /\ cpc = <<>>
    /\ creq = <<>>
    /\ cres = <<>>

DiffIdle ==
    /\ diffSQL = <<>>
    /\ coloredDiff = [ret |-> "unset", spans |-> <<>>]

DlgIdle ==
    /\ format = "none"
    /\ quality = 0
    /\ highResolution = FALSE
    /\ dlgOpen = FALSE
    /\ exported = [format |-> "none", quality |-> 0, highResolution |-> FALSE]

CalcInit ==
    /\ UiIdle
    /\ SchedIdle
    /\ StoreIdle
    /\ DiffIdle
    /\ DlgIdle
    /\ \E s \in CalcSchedules :
          calcJob = [NoJob EXCEPT !.schedule_type = s[1], !.start_time = s[2],
                                  !.days = s[3], !.months = s[4]]
    /\ calcNow \in CalcInstants
    /\ calcPhase = "input"

\* the job is registered at calcNow: its first next_run
CalcRegister ==
    /\ calcPhase = "input"
    /\ calcJob' = [calcJob EXCEPT !.next_run = InitialNextRun(calcJob, calcNow)]
    /\ calcPhase' = "registered"
    /\ UNCHANGED <<calcNow>>
    /\ UNCHANGED <<schedVars, storeVars, diffVars, dlgVars, uiVars>>

\* a run of the job ends at instant n: _run sets last_run and recomputes next_run
CalcRun ==
    /\ calcPhase = "registered"
    /\ \E n \in CalcInstants :
          /\ n >= calcNow
          /\ calcNow' = n
          /\ calcJob' = [calcJob EXCEPT
                 !.last_run = n,
                 !.next_run = calculate_next_run([calcJob EXCEPT !.last_run = n], n)]
    /\ calcPhase' = "ran"
    /\ UNCHANGED <<schedVars, storeVars, diffVars, dlgVars, uiVars>>

CalcNext == CalcRegister \/ CalcRun

CalcSpec == CalcInit /\ [][CalcNext]_vars


-----------------------------------------------------------------------------
(* The scheduler: BackupScheduler.start / stop / _run, restart_scheduler.   *)

MaxThreads == 2        \* scheduler threads that can exist at once
MaxTicks   == 2        \* clock advances in a behaviour
PollInterval == 30     \* time.sleep(30)

Threads == 1 .. MaxThreads

\* the clock advances by a poll interval or by a day
TickSteps == {PollInterval, SecsPerDay}

\* the schedules of the jobs, all registered at instant 0 (Monday 00:00:00)
OneTimeJob == NewJob("one_time", At(2024, 1, 1, 0, 0, 0), {}, {}, 0)
DailyJob   == NewJob("daily", At(2024, 1, 1, 0, 0, 30), {}, {}, 0)
WeeklyJob  == NewJob("weekly", At(2024, 1, 1, 0, 0, 0), {0, 1}, {}, 0)
MonthlyJob == NewJob("monthly", At(2024, 1, 1, 0, 0, 30), {}, {1, 2}, 0)

\* the job lists the scheduler is started with
JobLists ==
    { <<OneTimeJob, DailyJob>>,
      <<DailyJob, WeeklyJob>>,
      <<WeeklyJob, MonthlyJob>>,
      <<MonthlyJob, OneTimeJob>> }

\* should_run: the job is not running and is due
should_run(job, nw) ==
    /\ job.status # "Running"
    /\ \/ job.next_run # None /\ job.next_run <= nw
       \/ job.last_run = None /\ job.start_time <= nw

FreeThreads == {t \in Threads : pc[t] = "off"}
ActiveLoops == {t \in Threads : pc[t] # "off"}

Init ==
    /\ UiIdle
    /\ CalcIdle
    /\ StoreIdle
    /\ DiffIdle
    /\ DlgIdle
    /\ running = FALSE
    /\ pc = [t \in Threads |-> "off"]
    /\ cur = [t \in Threads |-> 0]
    /\ wake = [t \in Threads |-> 0]
    /\ now = 0
    /\ jobs \in JobLists
    /\ api = "idle"
    /\ ticks = 0

\* the body of start(): set the flag, create and start a thread running _run
StartBody ==
    /\ FreeThreads # {}
    /\ running' = TRUE
    /\ pc' = [pc EXCEPT ![Min(FreeThreads)] = "wait"]

\* the body of stop(): signal the loop to exit
StopBody == running' = FALSE

\* BackupScheduler.start()
Start ==
    /\ api = "idle"
    /\ StartBody
    /\ UNCHANGED <<cur, wake, jobs, now, api, ticks>>
    /\ UNCHANGED <<calcVars, storeVars, diffVars, dlgVars, uiVars>>

\* BackupScheduler.stop()
Stop ==
    /\ api = "idle"
    /\ StopBody
    /\ UNCHANGED <<pc, cur, wake, jobs, now, api, ticks>>
    /\ UNCHANGED <<calcVars, storeVars, diffVars, dlgVars, uiVars>>

\* restart_scheduler, first half: if backup_scheduler.running: stop()
RestartStop ==
    /\ api = "idle"
    /\ FreeThreads # {}
    /\ IF running THEN StopBody ELSE UNCHANGED running
    /\ api' = "restarting"
    /\ UNCHANGED <<pc, cur, wake, jobs, now, ticks>>
    /\ UNCHANGED <<calcVars, storeVars, diffVars, dlgVars, uiVars>>

\* restart_scheduler, second half: start(), then the response
RestartStart ==
    /\ api = "restarting"
    /\ StartBody
    /\ api' = "idle"
    /\ UNCHANGED <<cur, wake, jobs, now, ticks>>
    /\ UNCHANGED <<calcVars, storeVars, diffVars, dlgVars, uiVars>>

\* _run moves on from job cur[t]: to the next job of the list, or past the
\* last one to time.sleep(30)
Advance(t) ==
    IF cur[t] >= Len(jobs)
    THEN /\ pc' = [pc EXCEPT ![t] = "wait"]
         /\ wake' = [wake EXCEPT ![t] = now + PollInterval]
         /\ cur' = [cur EXCEPT ![t] = 0]
    ELSE /\ pc' = [pc EXCEPT ![t] = "poll"]
         /\ cur' = [cur EXCEPT ![t] = cur[t] + 1]
         /\ wake' = [wake EXCEPT ![t] = 0]

\* LoopCheck with the loop written `while True`: the flag is never tested
LoopCheckIgnoringFlag(t) ==
    /\ pc[t] = "wait"
    /\ now >= wake[t]
    /\ Advance(t)
    /\ UNCHANGED <<running, jobs, now, api, ticks>>
    /\ UNCHANGED <<calcVars, storeVars, diffVars, dlgVars, uiVars>>

\* _run: the thread begins, or its time.sleep(30) returns, and it tests
\* `while self.running`
LoopCheck(t) ==
    /\ pc[t] = "wait"
    /\ now >= wake[t]
    /\ IF running
       THEN Advance(t)
       ELSE /\ pc' = [pc EXCEPT ![t] = "off"]
            /\ wake' = [wake EXCEPT ![t] = 0]
            /\ UNCHANGED cur
    /\ UNCHANGED <<running, jobs, now, api, ticks>>
    /\ UNCHANGED <<calcVars, storeVars, diffVars, dlgVars, uiVars>>

\* _run: `if job.should_run()` for the job the iteration is at
PollJob(t) ==
    /\ pc[t] = "poll"
    /\ IF should_run(jobs[cur[t]], now)
       THEN /\ pc' = [pc EXCEPT ![t] = "dispatch"]
            /\ UNCHANGED <<wake, cur>>
       ELSE Advance(t)
    /\ UNCHANGED <<running, jobs, now, api, ticks>>
    /\ UNCHANGED <<calcVars, storeVars, diffVars, dlgVars, uiVars>>

\* _run: job.should_run() raises; nothing in _run catches it, so the
\* exception leaves the for loop and the while loop and the thread ends
PollJobRaises(t) ==
    /\ pc[t] = "poll"
    /\ pc' = [pc EXCEPT ![t] = "off"]
    /\ cur' = [cur EXCEPT ![t] = 0]
    /\ UNCHANGED <<running, wake, jobs, now, api, ticks>>
    /\ UNCHANGED <<calcVars, storeVars, diffVars, dlgVars, uiVars>>

\* _execute_backup begins: the job is marked Running and the backup starts
ExecBegin(t) ==
    /\ pc[t] = "dispatch"
    /\ jobs' = [jobs EXCEPT ![cur[t]].status = "Running"]
    /\ pc' = [pc EXCEPT ![t] = "exec"]
    /\ UNCHANGED <<running, cur, wake, now, api, ticks>>
    /\ UNCHANGED <<calcVars, storeVars, diffVars, dlgVars, uiVars>>

\* Completed that leaves last_run as it was
CompletedKeepingLastRun(job, ok, nw) ==
    LET ran == [job EXCEPT !.status = IF ok THEN "Succeeded" ELSE "Failed"]
    IN  [ran EXCEPT !.next_run = calculate_next_run([ran EXCEPT !.last_run = nw], nw)]

\* the job after its backup ended: the result is recorded, then
\* job.last_run = datetime.now() and job.calculate_next_run()
Completed(job, ok, nw) ==
    LET ran == [job EXCEPT !.status = IF ok THEN "Succeeded" ELSE "Failed",
                           !.last_run = nw]
    IN  [ran EXCEPT !.next_run = calculate_next_run(ran, nw)]

\* ExecEnd where a failed backup leaves _execute_backup as an exception,
\* which ends the thread
ExecEndRaisingOnFailure(t) ==
    /\ pc[t] = "exec"
    /\ \E ok \in BOOLEAN :
          /\ jobs' = [jobs EXCEPT ![cur[t]] = Completed(jobs[cur[t]], ok, now)]
          /\ IF ok
             THEN Advance(t)
             ELSE /\ pc' = [pc EXCEPT ![t] = "off"]
                  /\ cur' = [cur EXCEPT ![t] = 0]
                  /\ UNCHANGED wake
    /\ UNCHANGED <<running, now, api, ticks>>
    /\ UNCHANGED <<calcVars, storeVars, diffVars, dlgVars, uiVars>>

\* _execute_backup returns and _run goes on to the next job
ExecEnd(t) ==
    /\ pc[t] = "exec"
    /\ \E ok \in BOOLEAN :
          jobs' = [jobs EXCEPT ![cur[t]] = Completed(jobs[cur[t]], ok, now)]
    /\ Advance(t)
    /\ UNCHANGED <<running, now, api, ticks>>
    /\ UNCHANGED <<calcVars, storeVars, diffVars, dlgVars, uiVars>>

\* the wall clock advances; the statements of a poll cycle take no time on
\* this clock, so it advances only while every thread is waiting or inside a
\* backup
Tick ==
    /\ ticks < MaxTicks
    /\ \A t \in Threads : pc[t] \in {"off", "wait", "exec"}
    /\ \E d \in TickSteps : now' = now + d
    /\ ticks' = ticks + 1
    /\ wake' = [t \in Threads |-> IF wake[t] <= now' THEN 0 ELSE wake[t]]
    /\ UNCHANGED <<running, pc, cur, jobs, api>>
    /\ UNCHANGED <<calcVars, storeVars, diffVars, dlgVars, uiVars>>

Next ==
    \/ Start
    \/ Stop
    \/ RestartStop
    \/ RestartStart
    \/ \E t \in Threads : LoopCheck(t)
    \/ \E t \in Threads : PollJob(t)
    \/ \E t \in Threads : ExecBegin(t)
    \/ \E t \in Threads : ExecEnd(t)
    \/ Tick

Spec == Init /\ [][Next]_vars

\* the scheduler when the evaluation of should_run() can raise
FaultNext ==
    \/ Next
    \/ \E t \in Threads : PollJobRaises(t)

FaultSpec == Init /\ [][FaultNext]_vars


-----------------------------------------------------------------------------
(* Properties of the scheduler loop.                                       *)

\* the threads inside _execute_backup for job number j
InFlight(j) == {t \in Threads : pc[t] = "exec" /\ cur[t] = j}

\* the instant at which job.next_run was last computed: at the end of the
\* last run for a job that is rescheduled, at registration (instant 0) otherwise
ComputedAt(job) ==
    IF job.last_run # None /\ job.schedule_type # "one_time" THEN job.last_run ELSE 0

\* C1: a job whose status is Running is never dispatched again: no thread
\* enters _execute_backup for a job that is marked Running.
C1_RunningJobNeverRedispatched ==
    [][\A t \in Threads :
         (pc[t] = "dispatch" /\ pc'[t] = "exec") => jobs[cur[t]].status # "Running"]_vars

\* C2: a one-time job that has run has no next_run and is not dispatched again.
C2_OneTimeRunsOnce ==
    \A j \in 1 .. Len(jobs) :
        (jobs[j].schedule_type = "one_time" /\ jobs[j].last_run # None)
            => /\ jobs[j].next_run = None
               /\ \A t \in Threads : ~(pc[t] \in {"dispatch", "exec"} /\ cur[t] = j)

\* C3: start() on a running scheduler is a no-op, so at most one scheduler
\* loop is ever active.
C3_AtMostOneLoop == Cardinality(ActiveLoops) <= 1

\* C4: when restart_scheduler returns, the scheduler is running and exactly
\* one loop is active.
C4_RestartLeavesOneLoop ==
    [][(api = "restarting" /\ api' = "idle")
         => (running' /\ Cardinality({t \in Threads : pc'[t] # "off"}) = 1)]_vars

C6_NextRunAfterLastRun ==
    \A j \in 1 .. Len(jobs) :
        jobs[j].next_run # None
            => /\ jobs[j].next_run >= ComputedAt(jobs[j])
               /\ jobs[j].last_run # None => jobs[j].next_run > jobs[j].last_run

-----------------------------------------------------------------------------
(* Properties of the next-run computation.                                 *)

\* C7: for a daily job whose last run was at instant D, next_run is on the
\* calendar day after D at start_time's time of day.
C7_DailyNextDayAtStartTime ==
    (calcPhase = "ran" /\ calcJob.schedule_type = "daily")
        => /\ DayOf(calcJob.next_run) = DayOf(calcJob.last_run) + 1
           /\ TodOf(calcJob.next_run) = TodOf(calcJob.start_time)


\* the job whose next_run has been computed at calcNow
Computed(type) == calcPhase \in {"registered", "ran"} /\ calcJob.schedule_type = type

\* C8: for a weekly job with a non-empty day set, next_run is the earliest
\* instant not before now whose weekday is configured and whose time of day
\* is start_time's; it is today when today is configured and the time has
\* not passed; days {Monday, Thursday}, 09:00:00, now Wednesday 10:00:00
\* gives Thursday 09:00:00.
C8_WeeklyNearestConfiguredDay ==
    (Computed("weekly") /\ calcJob.days # {})
        => LET nr  == calcJob.next_run
               tod == TodOf(calcJob.start_time)
           IN  /\ nr # None
               /\ nr >= calcNow
               /\ WeekdayOf(nr) \in calcJob.days
               /\ TodOf(nr) = tod
               /\ \A d \in DayOf(calcNow) .. (DayOf(nr) - 1) :
                     ~(WeekdayOf(d * SecsPerDay) \in calcJob.days
                         /\ d * SecsPerDay + tod >= calcNow)
               /\ (WeekdayOf(calcNow) \in calcJob.days /\ TodOf(calcNow) <= tod)
                     => DayOf(nr) = DayOf(calcNow)
               /\ (calcJob.days = {0, 3} /\ tod = 9 * SecsPerHour
                         /\ calcNow = At(2024, 1, 3, 10, 0, 0))
                     => nr = At(2024, 1, 4, 9, 0, 0)

\* C8 witness: Monday/Thursday 09:00:00 computed on Wednesday 10:00:00
C8_Witness ==
    /\ Computed("weekly")
    /\ calcJob.days = {0, 3}
    /\ calcNow = At(2024, 1, 3, 10, 0, 0)
    /\ calcJob.next_run = At(2024, 1, 4, 9, 0, 0)

\* C9: for a monthly job whose day of month does not exist in the month
\* chosen, next_run is on the last day of that month: day 31 with February
\* chosen gives 28 February, 29 February in a leap year.
C9_MonthlyClampsToLastDay ==
    (Computed("monthly") /\ calcJob.months # {})
        => LET nr  == calcJob.next_run
               dom == DomOf(calcJob.start_time)
           IN  /\ nr # None
               /\ dom > DaysInMonth(YearOf(nr), MonthOf(nr))
                     => /\ DomOf(nr) = DaysInMonth(YearOf(nr), MonthOf(nr))
                        /\ DomOf(nr + SecsPerDay) = 1
               /\ dom <= DaysInMonth(YearOf(nr), MonthOf(nr)) => DomOf(nr) = dom
               /\ (dom = 31 /\ MonthOf(nr) = 2)
                     => DomOf(nr) = IF IsLeap(YearOf(nr)) THEN 29 ELSE 28

\* C9 witness: day 31 computed for February of a year that is not a leap year
C9_Witness ==
    /\ Computed("monthly")
    /\ DomOf(calcJob.start_time) = 31
    /\ calcJob.next_run # None
    /\ MonthOf(calcJob.next_run) = 2
    /\ DomOf(calcJob.next_run) = 28

\* the run instant of a monthly job in month m of year y
RunInMonth(job, y, m) ==
    Instant(y, m,
            IF DomOf(job.start_time) > DaysInMonth(y, m)
            THEN DaysInMonth(y, m) ELSE DomOf(job.start_time),
            TodOf(job.start_time))

\* C10: for a monthly job next_run lies in the nearest configured month whose
\* run instant is not past: in now's year when one is left there, in the
\* first configured month of the next year otherwise; months {2, 4}, day 30,
\* now 1 March gives 30 April.
C10_MonthlyNearestConfiguredMonth ==
    (Computed("monthly") /\ calcJob.months # {})
        => LET nr == calcJob.next_run
               y0 == YearOf(calcNow)
           IN  /\ nr # None
               /\ nr >= calcNow
               /\ MonthOf(nr) \in calcJob.months
               /\ \A y \in {y0, y0 + 1} : \A m \in calcJob.months :
                     RunInMonth(calcJob, y, m) >= calcNow
                         => nr <= RunInMonth(calcJob, y, m)
               /\ (\E m \in calcJob.months : RunInMonth(calcJob, y0, m) >= calcNow)
                     => YearOf(nr) = y0
               /\ (\A m \in calcJob.months : RunInMonth(calcJob, y0, m) < calcNow)
                     => (YearOf(nr) = y0 + 1 /\ MonthOf(nr) = Min(calcJob.months))
               /\ (calcJob.months = {2, 4} /\ DomOf(calcJob.start_time) = 30
                         /\ calcNow = At(2024, 3, 1, 0, 0, 0))
                     => nr = At(2024, 4, 30, 9, 0, 0)

\* C10 witness: every configured month of now's year is past and next_run is
\* in the first configured month of the next year
C10_Witness ==
    /\ Computed("monthly")
    /\ calcJob.months = {2, 4}
    /\ calcJob.next_run # None
    /\ YearOf(calcJob.next_run) = YearOf(calcNow) + 1
    /\ MonthOf(calcJob.next_run) = 2



-----------------------------------------------------------------------------
(* Failures inside the loop.                                               *)

\* the step of thread t is the end of a backup that failed
FailedRun(t) ==
    /\ pc[t] = "exec"
    /\ pc'[t] # "exec"
    /\ jobs'[cur[t]].status = "Failed"

C16_EvaluationFailureIsIsolated ==
    [][\A t \in Threads : pc[t] = "poll" => pc'[t] # "off"]_vars

\* C18: a backup in flight does not keep the loop from the other jobs:
\* while the scheduler is running and a backup is in flight, a loop thread is
\* outside _execute_backup, polling or asleep until the next cycle, whenever
\* another job is due.
C18_BackupInFlightDoesNotBlockLoop ==
    \A t \in Threads :
       pc[t] = "exec" =>
          \A i \in 1 .. Len(jobs) :
             (running /\ i # cur[t] /\ should_run(jobs[i], now))
                => \E u \in Threads : pc[u] \in {"wait", "poll", "dispatch"}

-----------------------------------------------------------------------------
(* Dispatch and completion in the scheduler loop.                          *)

\* next_run at or before nw, or never run and start_time at or before nw
Due(job, nw) ==
    \/ job.next_run # None /\ job.next_run <= nw
    \/ job.last_run = None /\ job.start_time <= nw

\* C22: in a poll cycle a job is dispatched if and only if its status is
\* not Running and it is due: the loop goes from the evaluation of such a
\* job to its dispatch and of no other, the job it hands to the backup is
\* not Running and is due, and the job is marked Running as the backup starts.
C22_DispatchedIffDueAndNotRunning ==
    /\ [][\A t \in Threads :
             (pc[t] = "poll" /\ pc'[t] # "poll")
                => (pc'[t] = "dispatch"
                      <=> (jobs[cur[t]].status # "Running" /\ Due(jobs[cur[t]], now)))]_vars
    /\ [][\A t \in Threads :
             (pc[t] = "dispatch" /\ pc'[t] = "exec")
                => /\ jobs[cur[t]].status # "Running"
                   /\ Due(jobs[cur[t]], now)
                   /\ jobs'[cur[t]].status = "Running"]_vars

\* C23: when a backup completes, its job's status becomes Succeeded or
\* Failed, its last_run the completion time, its next_run is recomputed
\* from that time unless the job is one-time, when it is left as it was;
\* the schedule of the job and every other job stay as they were.
C23_CompletionUpdatesOnlyItsJob ==
    [][\A t \in Threads :
          (pc[t] = "exec" /\ pc'[t] # "exec")
             => LET old == jobs[cur[t]]
                    new == jobs'[cur[t]]
                IN  /\ new.status \in {"Succeeded", "Failed"}
                    /\ new.last_run = now
                    /\ new.next_run =
                          IF old.schedule_type = "one_time" THEN old.next_run
                          ELSE calculate_next_run([old EXCEPT !.last_run = now], now)
                    /\ new.schedule_type = old.schedule_type
                    /\ new.start_time = old.start_time
                    /\ new.days = old.days
                    /\ new.months = old.months
                    /\ Len(jobs') = Len(jobs)
                    /\ \A i \in 1 .. Len(jobs) : i # cur[t] => jobs'[i] = jobs[i]]_vars

\* the second job of the list, which recurs, has completed a run at the
\* present instant and has its next run after it, the first job not having run
C23_Witness ==
    /\ jobs[2].schedule_type # "one_time"
    /\ jobs[2].status = "Succeeded"
    /\ jobs[2].last_run = now
    /\ jobs[2].next_run > now
    /\ jobs[1].last_run = None

-----------------------------------------------------------------------------
(* The Job Store: add / remove / update over the in-memory job list and    *)
(* the persistence collaborator (save / delete, either of which can fail). *)

MaxCallers == 2        \* concurrent callers of add()
MaxJobs    == 2        \* jobs held or being added at once

Callers == 1 .. MaxCallers
JobIds  == 1 .. MaxJobs

\* the instant of the Job Store's operations: Wednesday 10:00:00
StoreNow == At(2024, 1, 3, 10, 0, 0)

\* job configurations handed to add(): <<schedule_type, start_time, days, months>>
AddInputs ==
    { <<"one_time", At(2024, 1, 4, 9, 0, 0), {}, {}>>,
      <<"one_time", At(2024, 1, 2, 9, 0, 0), {}, {}>>,      \* in the past
      <<"daily",    At(2024, 1, 1, 9, 0, 0), {}, {}>>,
      <<"weekly",   At(2024, 1, 1, 9, 0, 0), {0, 3}, {}>>,
      <<"weekly",   At(2024, 1, 1, 9, 0, 0), {}, {}>>,      \* no day
      <<"monthly",  At(2024, 1, 30, 9, 0, 0), {}, {2, 4}>>,
      <<"monthly",  At(2024, 1, 30, 9, 0, 0), {}, {}>> }    \* no month

\* the configurations concurrent callers add
ConcInputs ==
    { <<"daily",  At(2024, 1, 1, 9, 0, 0), {}, {}>>,
      <<"weekly", At(2024, 1, 1, 9, 0, 0), {0, 3}, {}>>,
      <<"weekly", At(2024, 1, 1, 9, 0, 0), {}, {}>> }

\* the scheduler form's state for a configuration, scheduling enabled
FormState(in) ==
    [enable_scheduler |-> TRUE, schedule_type |-> in[1], start_date_time |-> in[2],
     repeat_days |-> in[3], repeat_months |-> in[4]]

\* SchedulerSchema.validate: TRUE when it reports an error
validate(state) == state.enable_scheduler /\ state.start_date_time = None

\* add()'s validation that accepts any day and month set
ValidJobIgnoringSets(in, nw) == in[1] = "one_time" => in[2] >= nw

\* add()'s validation of the recurrence-specific fields
ValidJob(in, nw) ==
    /\ in[1] = "weekly" => in[3] # {}
    /\ in[1] = "monthly" => in[4] # {}
    /\ in[1] = "one_time" => in[2] >= nw

NoReq == [id |-> 0, in |-> <<"none", None, {}, {}>>]

InAdd == {c \in Callers : cpc[c] # "idle"}
StoredIds == {ids[i] : i \in 1 .. Len(ids)}
UsedIds == StoredIds \cup persisted \cup {creq[c].id : c \in InAdd}
IndexOf(id) == CHOOSE i \in 1 .. Len(ids) : ids[i] = id
RemoveAt(seq, i) == SubSeq(seq, 1, i - 1) \o SubSeq(seq, i + 1, Len(seq))

StoreFrame == UNCHANGED <<running, pc, cur, wake, now, api, ticks,
                          calcVars, diffVars, dlgVars, uiVars>>

StoreInit ==
    /\ UiIdle
    /\ CalcIdle
    /\ DiffIdle
    /\ DlgIdle
    /\ running = FALSE
    /\ pc = <<>>
    /\ cur = <<>>
    /\ wake = <<>>
    /\ api = "idle"
    /\ ticks = 0
    /\ now = StoreNow
    /\ jobs = <<>>
    /\ ids = <<>>
    /\ persisted = {}
    /\ cpc = [c \in Callers |-> "idle"]
    /\ creq = [c \in Callers |-> NoReq]
    /\ cres = [c \in Callers |-> "none"]

\* caller c calls add(job) with configuration in
AddCall(c, in) ==
    /\ cpc[c] = "idle"
    /\ Len(jobs) + Cardinality(InAdd) < MaxJobs
    /\ cpc' = [cpc EXCEPT ![c] = "called"]
    /\ creq' = [creq EXCEPT ![c] = [id |-> 0, in |-> in]]
    /\ cres' = [cres EXCEPT ![c] = "none"]
    /\ UNCHANGED <<jobs, ids, persisted>>
    /\ StoreFrame

\* add(): validation; a valid job gets its id
AddValidate(c) ==
    /\ cpc[c] = "called"
    /\ IF ValidJob(creq[c].in, now)
       THEN /\ cpc' = [cpc EXCEPT ![c] = "validated"]
            /\ creq' = [creq EXCEPT ![c].id = Min(JobIds \ UsedIds)]
            /\ UNCHANGED cres
       ELSE /\ cpc' = [cpc EXCEPT ![c] = "idle"]
            /\ cres' = [cres EXCEPT ![c] = "ValidationError"]
            /\ UNCHANGED creq
    /\ UNCHANGED <<jobs, ids, persisted>>
    /\ StoreFrame

\* add() that goes on to register the job when save(job) has failed
AddPersistIgnoringFailure(c) ==
    /\ cpc[c] = "validated"
    /\ \E ok \in BOOLEAN :
          IF ok
          THEN persisted' = persisted \cup {creq[c].id}
          ELSE UNCHANGED persisted
    /\ cpc' = [cpc EXCEPT ![c] = "saved"]
    /\ UNCHANGED <<jobs, ids, creq, cres>>
    /\ StoreFrame

\* add(): save(job) of the persistence collaborator, which succeeds or fails
AddPersist(c) ==
    /\ cpc[c] = "validated"
    /\ \E ok \in BOOLEAN :
          IF ok
          THEN /\ persisted' = persisted \cup {creq[c].id}
               /\ cpc' = [cpc EXCEPT ![c] = "saved"]
               /\ UNCHANGED cres
          ELSE /\ cpc' = [cpc EXCEPT ![c] = "idle"]
               /\ cres' = [cres EXCEPT ![c] = "PersistError"]
               /\ UNCHANGED persisted
    /\ UNCHANGED <<jobs, ids, creq>>
    /\ StoreFrame

\* add() that registers the job by replacing the job list
AddRegisterOverwriting(c) ==
    /\ cpc[c] = "saved"
    /\ jobs' = <<NewJob(creq[c].in[1], creq[c].in[2], creq[c].in[3],
                        creq[c].in[4], now)>>
    /\ ids' = <<creq[c].id>>
    /\ cpc' = [cpc EXCEPT ![c] = "idle"]
    /\ cres' = [cres EXCEPT ![c] = "ok"]
    /\ UNCHANGED <<persisted, creq>>
    /\ StoreFrame

\* add(): the saved job is registered in memory and add() returns
AddRegister(c) ==
    /\ cpc[c] = "saved"
    /\ jobs' = Append(jobs, NewJob(creq[c].in[1], creq[c].in[2], creq[c].in[3],
                                   creq[c].in[4], now))
    /\ ids' = Append(ids, creq[c].id)
    /\ cpc' = [cpc EXCEPT ![c] = "idle"]
    /\ cres' = [cres EXCEPT ![c] = "ok"]
    /\ UNCHANGED <<persisted, creq>>
    /\ StoreFrame


\* remove(id) that reports an absent id as an error
RemoveFailingOnAbsent(c, id) ==
    /\ cpc[c] = "idle"
    /\ InAdd = {}
    /\ IF id \notin StoredIds
       THEN /\ cres' = [cres EXCEPT ![c] = "NotFoundError"]
            /\ UNCHANGED <<jobs, ids, persisted>>
       ELSE /\ jobs' = RemoveAt(jobs, IndexOf(id))
            /\ ids' = RemoveAt(ids, IndexOf(id))
            /\ persisted' = persisted \ {id}
            /\ cres' = [cres EXCEPT ![c] = "ok"]
    /\ UNCHANGED <<cpc, creq>>
    /\ StoreFrame

\* remove(id): nothing to do for an absent id; otherwise delete(id) of the
\* persistence collaborator, and on its success the job leaves the memory
Remove(c, id) ==
    /\ cpc[c] = "idle"
    /\ InAdd = {}
    /\ IF id \notin StoredIds
       THEN /\ cres' = [cres EXCEPT ![c] = "ok"]
            /\ UNCHANGED <<jobs, ids, persisted>>
       ELSE \E ok \in BOOLEAN :
               IF ok
               THEN /\ jobs' = RemoveAt(jobs, IndexOf(id))
                    /\ ids' = RemoveAt(ids, IndexOf(id))
                    /\ persisted' = persisted \ {id}
                    /\ cres' = [cres EXCEPT ![c] = "ok"]
               ELSE /\ cres' = [cres EXCEPT ![c] = "PersistError"]
                    /\ UNCHANGED <<jobs, ids, persisted>>
    /\ UNCHANGED <<cpc, creq>>
    /\ StoreFrame

\* the mutations update() is called with: <<field, value>>
Mutations == { <<"status", "Failed">>, <<"next_run", StoreNow + SecsPerDay>> }

Mutated(job, mut) ==
    IF mut[1] = "status" THEN [job EXCEPT !.status = mut[2]]
    ELSE [job EXCEPT !.next_run = mut[2]]

\* update(id, mutation) that registers a job under an unknown id
UpdateUpserting(c, id, mut) ==
    /\ cpc[c] = "idle"
    /\ InAdd = {}
    /\ IF id \notin StoredIds
       THEN /\ Len(jobs) < MaxJobs
            /\ jobs' = Append(jobs, Mutated(NewJob("daily", StoreNow, {}, {}, now), mut))
            /\ ids' = Append(ids, id)
            /\ persisted' = persisted \cup {id}
       ELSE /\ jobs' = [jobs EXCEPT ![IndexOf(id)] = Mutated(jobs[IndexOf(id)], mut)]
            /\ UNCHANGED <<ids, persisted>>
    /\ cres' = [cres EXCEPT ![c] = "ok"]
    /\ UNCHANGED <<cpc, creq>>
    /\ StoreFrame

\* update(id, mutation): NotFoundError for an unknown id; otherwise the
\* mutated job is saved and, on success, replaces the job in memory
Update(c, id, mut) ==
    /\ cpc[c] = "idle"
    /\ InAdd = {}
    /\ IF id \notin StoredIds
       THEN /\ cres' = [cres EXCEPT ![c] = "NotFoundError"]
            /\ UNCHANGED jobs
       ELSE \E ok \in BOOLEAN :
               IF ok
               THEN /\ jobs' = [jobs EXCEPT ![IndexOf(id)] = Mutated(jobs[IndexOf(id)], mut)]
                    /\ cres' = [cres EXCEPT ![c] = "ok"]
               ELSE /\ cres' = [cres EXCEPT ![c] = "PersistError"]
                    /\ UNCHANGED jobs
    /\ UNCHANGED <<ids, persisted, cpc, creq>>
    /\ StoreFrame

\* one caller using the whole interface of the Job Store
StoreNext ==
    \/ \E in \in AddInputs : AddCall(1, in)
    \/ AddValidate(1)
    \/ AddPersist(1)
    \/ AddRegister(1)
    \/ \E id \in JobIds : Remove(1, id)
    \/ \E id \in JobIds, mut \in Mutations : Update(1, id, mut)

StoreSpec == StoreInit /\ [][StoreNext]_vars

\* several callers inside add() at once
ConcNext ==
    \/ \E c \in Callers, in \in ConcInputs : AddCall(c, in)
    \/ \E c \in Callers : AddValidate(c)
    \/ \E c \in Callers : AddPersist(c)
    \/ \E c \in Callers : AddRegister(c)

ConcSpec == StoreInit /\ [][ConcNext]_vars


-----------------------------------------------------------------------------
(* Properties of the Job Store.                                            *)

\* a weekly job with no day, a monthly job with no month, a one-time job
\* whose start time is before nw
Malformed(in, nw) ==
    \/ in[1] = "weekly" /\ in[3] = {}
    \/ in[1] = "monthly" /\ in[4] = {}
    \/ in[1] = "one_time" /\ in[2] < nw

C12_RemoveIsIdempotent ==
    [][\A id \in JobIds :
          Remove(1, id)
             => /\ id \notin StoredIds
                     => cres'[1] = "ok" /\ UNCHANGED <<jobs, ids, persisted>>
                /\ cres'[1] = "ok"
                     => /\ id \notin StoredIds' /\ id \notin persisted'
                        /\ Len(jobs') = Len(ids')]_vars

\* a job was added and removed again: the store is empty after a remove
C12_Witness ==
    /\ cres[1] = "ok"
    /\ creq[1].id # 0
    /\ jobs = <<>>
    /\ persisted = {}

\* C13: update(id, mutation) of an id the store does not hold returns
\* NotFoundError and leaves every job unchanged.
C13_UpdateUnknownIdFails ==
    [][\A id \in JobIds, mut \in Mutations :
          (Update(1, id, mut) /\ id \notin StoredIds)
             => /\ cres'[1] = "NotFoundError"
                /\ UNCHANGED <<jobs, ids, persisted>>]_vars

\* update() of an unknown id has failed while the store holds a job
C13_Witness ==
    /\ cres[1] = "NotFoundError"
    /\ jobs # <<>>

\* C14: when save(job) fails during add(job), add returns PersistError and
\* the job does not enter the memory; every job in memory has been persisted.
C14_MemoryJobsArePersisted ==
    /\ [](StoredIds \subseteq persisted /\ Len(jobs) = Len(ids))
    /\ [][\A c \in Callers :
             (cpc[c] = "validated" /\ persisted' = persisted /\ cpc'[c] # "validated")
                => /\ cpc'[c] = "idle"
                   /\ cres'[c] = "PersistError"
                   /\ UNCHANGED <<jobs, ids>>]_vars

\* add() has failed on save(job) while the store holds a job
C14_Witness ==
    /\ cres[1] = "PersistError"
    /\ creq[1].id \notin StoredIds
    /\ jobs # <<>>


\* the jobs add() builds from the configurations concurrent callers pass
CompleteJobs ==
    { NewJob(in[1], in[2], in[3], in[4], StoreNow) :
         in \in {x \in ConcInputs : ValidJob(x, StoreNow)} }

-----------------------------------------------------------------------------
(* parseAndColorCodeDiff.  A line is a sequence of tokens, standing for the *)
(* text made of the tokens one after the other; the argument is the        *)
(* sequence of the lines that diffSQL.split('\n') yields, and <<>> stands   *)
(* for a null argument.                                                     *)

MaxTokens == 4         \* tokens in a line

Tokens == {"+", "-", " ", "x", "CREATE", "INSERT", "ADD", "add",
           "DROP", "DELETE", "REMOVE", "ALTER", "UPDATE"}

Words == Tokens \ {"+", "-", " "}

\* a word is a whole word: the token after it is not another word
Lines ==
    { line \in UNION {[1 .. n -> Tokens] : n \in 0 .. MaxTokens} :
         \A i \in 1 .. Len(line) - 1 : ~(line[i] \in Words /\ line[i + 1] \in Words) }

SampleLines == { <<>>, <<"x">>, <<"CREATE", " ", "x">> }

DiffInputs ==
    {<<>>} \cup {<<l>> : l \in Lines} \cup {<<a, b>> : a, b \in SampleLines}

\* the regular expressions carry the flag i
Upper(tok) == IF tok = "add" THEN "ADD" ELSE tok

WhiteSpace == {" "}

\* /^\s*KW\s/
AnchoredKeyword(line, kw) ==
    \E i \in 1 .. Len(line) - 1 :
       /\ \A j \in 1 .. i - 1 : line[j] \in WhiteSpace
       /\ Upper(line[i]) = kw
       /\ line[i + 1] \in WhiteSpace

\* /KW\s/
FloatingKeyword(line, kw) ==
    \E i \in 1 .. Len(line) - 1 : Upper(line[i]) = kw /\ line[i + 1] \in WhiteSpace

\* /MARK/ for a marker that ends in a colon
Marker(line, mark) == \E i \in 1 .. Len(line) : Upper(line[i]) = mark

\* /^C/ for the character C
FirstChar(line, ch) == Len(line) > 0 /\ line[1] = ch

\* line.includes(keyword)
includes(line, keyword) == \E i \in 1 .. Len(line) : line[i] = keyword

addedRegex(line) ==
    \/ FirstChar(line, "+")
    \/ AnchoredKeyword(line, "CREATE")
    \/ AnchoredKeyword(line, "INSERT")
    \/ FloatingKeyword(line, "ADD")
    \/ Marker(line, "ADDED:")

removedRegex(line) ==
    \/ FirstChar(line, "-")
    \/ AnchoredKeyword(line, "DROP")
    \/ AnchoredKeyword(line, "DELETE")
    \/ FloatingKeyword(line, "REMOVE")
    \/ Marker(line, "REMOVED:")
    \/ Marker(line, "MISSING:")

modifiedRegex(line) ==
    \/ AnchoredKeyword(line, "ALTER")
    \/ AnchoredKeyword(line, "UPDATE")
    \/ FloatingKeyword(line, "MODIFY")
    \/ Marker(line, "MODIFIED:")
    \/ Marker(line, "CHANGED:")

addedKeywords    == {"CREATE", "INSERT", "ADD"}
removedKeywords  == {"DROP", "DELETE", "REMOVE"}
modifiedKeywords == {"ALTER", "UPDATE", "MODIFY", "REPLACE"}

\* the class of the span the line is wrapped in, "plain" for no span
LineClass(line) ==
    LET hasAddedKeyword    == \E k \in addedKeywords : includes(line, k)
        hasRemovedKeyword  == \E k \in removedKeywords : includes(line, k)
        hasModifiedKeyword == \E k \in modifiedKeywords : includes(line, k)
    IN  IF addedRegex(line) THEN "diff-added"
        ELSE IF removedRegex(line) THEN "diff-removed"
        ELSE IF modifiedRegex(line) THEN "diff-modified"
        ELSE IF hasAddedKeyword /\ ~hasRemovedKeyword /\ ~hasModifiedKeyword
             THEN "diff-added"
        ELSE IF hasRemovedKeyword /\ ~hasAddedKeyword /\ ~hasModifiedKeyword
             THEN "diff-removed"
        ELSE IF hasModifiedKeyword THEN "diff-modified"
        ELSE "plain"

\* the result: null, or one entry per line, each followed by a newline
parseAndColorCodeDiff(d) ==
    IF d = <<>> \/ d = << <<>> >>
    THEN [ret |-> "null", spans |-> <<>>]
    ELSE [ret |-> "string",
          spans |-> [i \in 1 .. Len(d) |-> [class |-> LineClass(d[i]), line |-> d[i]]]]

DiffInit ==
    /\ UiIdle
    /\ SchedIdle
    /\ CalcIdle
    /\ StoreIdle
    /\ DlgIdle
    /\ diffSQL \in DiffInputs
    /\ coloredDiff = [ret |-> "unset", spans |-> <<>>]

Colorize ==
    /\ coloredDiff.ret = "unset"
    /\ coloredDiff' = parseAndColorCodeDiff(diffSQL)
    /\ UNCHANGED diffSQL
    /\ UNCHANGED <<schedVars, calcVars, storeVars, dlgVars, uiVars>>

DiffNext == Colorize

DiffSpec == DiffInit /\ [][DiffNext]_vars


\* C19: every line that begins with ALTER or UPDATE is wrapped as
\* diff-modified, every line that begins with CREATE, INSERT or '+' as
\* diff-added, and every line that begins with DROP, DELETE or '-' as
\* diff-removed.
C19_KeywordLinesHighlighted ==
    coloredDiff.ret = "string" =>
       \A i \in 1 .. Len(diffSQL) :
          LET line == diffSQL[i]
              class == coloredDiff.spans[i].class
          IN  Len(line) > 0 =>
                 /\ line[1] \in {"ALTER", "UPDATE"} => class = "diff-modified"
                 /\ line[1] \in {"CREATE", "INSERT", "+"} => class = "diff-added"
                 /\ line[1] \in {"DROP", "DELETE", "-"} => class = "diff-removed"

-----------------------------------------------------------------------------
(* ExportDialog.                                                            *)

DefaultQuality == 90   \* React.useState(90)
SliderMin == 10        \* min={10}
SliderMax == 100       \* max={100}

\* the values of the MenuItems of the format Select
Formats == {"png", "jpeg", "webp", "pdf"}

NoExport == [format |-> "none", quality |-> 0, highResolution |-> FALSE]

\* showQualityOption that leaves WebP out
showQualityOptionJpegOnly == format \in {"jpeg", "jpg"}

\* const showQualityOption = ['jpeg', 'jpg', 'webp'].includes(format)
showQualityOption == format \in {"jpeg", "jpg", "webp"}

\* the dialog is mounted
DlgInit ==
    /\ UiIdle
    /\ SchedIdle
    /\ CalcIdle
    /\ StoreIdle
    /\ DiffIdle
    /\ format = "png"
    /\ quality = DefaultQuality
    /\ highResolution = FALSE
    /\ dlgOpen = TRUE
    /\ exported = NoExport

DlgFrame == UNCHANGED <<schedVars, calcVars, storeVars, diffVars, uiVars>>

\* the Select's onChange: setFormat(e.target.value)
SetFormat ==
    /\ dlgOpen
    /\ \E f \in Formats : format' = f
    /\ UNCHANGED <<quality, highResolution, dlgOpen, exported>>
    /\ DlgFrame

\* the Slider's onChange: setQuality(newValue); the slider is rendered only
\* under showQualityOption
MoveSlider ==
    /\ dlgOpen
    /\ showQualityOption
    /\ \E q \in SliderMin .. SliderMax : quality' = q
    /\ UNCHANGED <<format, highResolution, dlgOpen, exported>>
    /\ DlgFrame

\* the Checkbox's onChange: setHighResolution(e.target.checked)
ToggleHighResolution ==
    /\ dlgOpen
    /\ highResolution' = ~highResolution
    /\ UNCHANGED <<format, quality, dlgOpen, exported>>
    /\ DlgFrame

\* handleExport: onExport(format, {quality, highResolution}); onClose()
HandleExport ==
    /\ dlgOpen
    /\ exported' = [format |-> format, quality |-> quality,
                    highResolution |-> highResolution]
    /\ dlgOpen' = FALSE
    /\ UNCHANGED <<format, quality, highResolution>>
    /\ DlgFrame

\* the Cancel button: onClose()
Cancel ==
    /\ dlgOpen
    /\ dlgOpen' = FALSE
    /\ UNCHANGED <<format, quality, highResolution, exported>>
    /\ DlgFrame

DlgNext == SetFormat \/ MoveSlider \/ ToggleHighResolution \/ HandleExport \/ Cancel

DlgSpec == DlgInit /\ [][DlgNext]_vars

\* C20: while the dialog is open the quality slider can be moved exactly
\* when the selected format is JPEG or WebP, and the quality passed to
\* onExport is within 10..100 whatever was selected, moved and ticked before.
C20_QualityOfferedAndInRange ==
    /\ dlgOpen => ((ENABLED MoveSlider) <=> format \in {"jpeg", "webp"})
    /\ quality \in SliderMin .. SliderMax
    /\ exported # NoExport => exported.quality \in 10 .. 100

\* the slider was moved to its lowest value under a lossy format, the format
\* was changed to PNG and the high-resolution box ticked, then exported
C20_Witness ==
    /\ ~dlgOpen
    /\ exported = [format |-> "png", quality |-> SliderMin, highResolution |-> TRUE]

-----------------------------------------------------------------------------
(* Diagram export: the size of the image.                                   *)

SizeLimit == 32767     \* if(width >= 32767)
MaxSize   == 32766     \* width = 32766

\* the sizes of the diagram's content
ContentSizes == {800, 16383, 16384, 32766, 32767, 40000}

\* the options the export dialog passes with onExport
ExportOptions ==
    [format : Formats, quality : {SliderMin, DefaultQuality, SliderMax},
     highResolution : BOOLEAN]

\* the size limit that lets a dimension of exactly 32767 through
LimitedAbove(d) == IF d > SizeLimit THEN MaxSize ELSE d

\* if(d >= 32767) d = 32766
Limited(d) == IF d >= SizeLimit THEN MaxSize ELSE d

SizeFrame == UNCHANGED <<schedVars, calcVars, storeVars, diffVars, dlgVars, sqlVars, swVars, treeVars>>

\* the export begins: the content has been measured
SizeInit ==
    /\ SchedIdle
    /\ SqlIdle
    /\ SwIdle
    /\ TreeIdle
    /\ CalcIdle
    /\ StoreIdle
    /\ DiffIdle
    /\ format = "none"
    /\ quality = 0
    /\ highResolution = FALSE
    /\ dlgOpen = FALSE
    /\ exported \in ExportOptions
    /\ width \in ContentSizes
    /\ height \in ContentSizes
    /\ isCut = FALSE
    /\ sizePc = "measured"

\* const scale = options.highResolution ? 2 : 1; width *= scale; height *= scale
ApplyScale ==
    /\ sizePc = "measured"
    /\ LET scale == IF exported.highResolution THEN 2 ELSE 1
       IN  IF exported.highResolution
           THEN width' = width * scale /\ height' = height * scale
           ELSE UNCHANGED <<width, height>>
    /\ sizePc' = "scaled"
    /\ UNCHANGED isCut
    /\ SizeFrame

\* the size limit on the scaled dimensions
ApplyLimit ==
    /\ sizePc = "scaled"
    /\ width' = Limited(width)
    /\ height' = Limited(height)
    /\ isCut' = (isCut \/ width >= SizeLimit \/ height >= SizeLimit)
    /\ sizePc' = "limited"
    /\ SizeFrame

SizeNext == ApplyScale \/ ApplyLimit

SizeSpec == SizeInit /\ [][SizeNext]_vars

MaxCalls == 3            \* showSQL is called at most this often

PanelsFound == 1         \* pgBrowser.docker.findPanels('sql').length: the one SQL panel

Nodes == {"a", "b", "c"}
NoNode == "none"

\* node.hasSQL
hasSQL(n) == n \in {"a", "b"}

\* '-- ' + pgBrowser.messages.NODE_HAS_NO_SQL
NODE_HAS_NO_SQL == "-- no sql"

\* what the server answers to the request of node.generate_url(item, 'sql', ...)
SqlOf(n) == IF n = "a" THEN "sql of a" ELSE "sql of b"

SqlFrame == UNCHANGED <<schedVars, calcVars, storeVars, diffVars, dlgVars, sizeVars, swVars, treeVars>>

SqlInit ==
    /\ SchedIdle
    /\ CalcIdle
    /\ StoreIdle
    /\ DiffIdle
    /\ DlgIdle
    /\ SizeIdle
    /\ SwIdle
    /\ TreeIdle
    /\ initialized = FALSE
    /\ sqlVisible \in BOOLEAN
    /\ subs = 0
    /\ selected = NoNode
    /\ timers = {}
    /\ timeout = 0
    /\ calls = 0
    /\ nodeProp = NoNode
    /\ inflight = {}
    /\ editor = ""

\* showSQL that leaves the timer of the previous call pending
showSQLWithoutClear(item) ==
    /\ timers' = timers \cup {[id |-> calls + 1, node |-> item]}
    /\ timeout' = calls + 1
    /\ calls' = calls + 1

\* this.timeout && clearTimeout(this.timeout); this.timeout = setTimeout(..., 400)
showSQL(item) ==
    /\ timers' = {tm \in timers : tm.id # timeout} \cup {[id |-> calls + 1, node |-> item]}
    /\ timeout' = calls + 1
    /\ calls' = calls + 1

\* init() without the initialized guard
initUnguarded ==
    /\ initialized' = TRUE
    /\ subs' = IF sqlVisible \/ PanelsFound # 1 THEN subs + 1 ELSE subs
    /\ UNCHANGED <<sqlVisible, selected, timers, timeout, calls, nodeProp, inflight, editor>>
    /\ SqlFrame

\* init(): returns at once when already initialized; otherwise listens to the
\* panel's visibility and, when the panel is visible, to the tree selection
init ==
    /\ IF initialized
         THEN UNCHANGED <<initialized, subs>>
         ELSE /\ initialized' = TRUE
              /\ subs' = IF sqlVisible \/ PanelsFound # 1 THEN subs + 1 ELSE subs
    /\ UNCHANGED <<sqlVisible, selected, timers, timeout, calls, nodeProp, inflight, editor>>
    /\ SqlFrame

\* the panel is shown or hidden; once init() has registered it,
\* sqlPanelVisibilityChanged runs: Events.on adds a handler, Events.off removes
\* every handler showSQL
VisibilityChanged ==
    /\ sqlVisible' = ~sqlVisible
    /\ IF ~initialized
         THEN UNCHANGED <<subs, timers, timeout, calls>>
         ELSE IF sqlVisible'
           THEN /\ calls < MaxCalls
                /\ showSQL(selected)
                /\ subs' = subs + 1
           ELSE /\ subs' = 0
                /\ UNCHANGED <<timers, timeout, calls>>
    /\ UNCHANGED <<initialized, selected, nodeProp, inflight, editor>>
    /\ SqlFrame

\* the user selects a node of the tree: 'pgadmin-browser:tree:selected' calls
\* the registered handlers
TreeSelected(n) ==
    /\ selected' = n
    /\ IF subs > 0
         THEN /\ calls < MaxCalls
              /\ showSQL(n)
         ELSE UNCHANGED <<timers, timeout, calls>>
    /\ UNCHANGED <<initialized, sqlVisible, subs, nodeProp, inflight, editor>>
    /\ SqlFrame

\* 400 ms after the call its timer runs: nothing without a node or for the
\* cached node; otherwise the node is cached and either its SQL is requested
\* or the editor is set to the no-SQL comment
TimerFires(tm) ==
    /\ tm \in timers
    /\ timers' = timers \ {tm}
    /\ IF tm.node = NoNode \/ tm.node = nodeProp
         THEN UNCHANGED <<nodeProp, inflight, editor>>
         ELSE /\ nodeProp' = tm.node
              /\ IF hasSQL(tm.node)
                   THEN /\ inflight' = inflight \cup {tm.node}
                        /\ UNCHANGED editor
                   ELSE /\ editor' = NODE_HAS_NO_SQL
                        /\ UNCHANGED inflight
    /\ UNCHANGED <<initialized, sqlVisible, subs, selected, timeout, calls>>
    /\ SqlFrame

\* success: the editor takes the response
Success(n) ==
    /\ n \in inflight
    /\ inflight' = inflight \ {n}
    /\ editor' = SqlOf(n)
    /\ UNCHANGED <<initialized, sqlVisible, subs, selected, timers, timeout, calls, nodeProp>>
    /\ SqlFrame

SqlNext ==
    \/ init
    \/ VisibilityChanged
    \/ \E n \in Nodes : TreeSelected(n)
    \/ \E tm \in timers : TimerFires(tm)
    \/ \E n \in Nodes : Success(n)

SqlSpec == SqlInit /\ [][SqlNext]_vars

\* ---------------------------------------------------------------------------
\* Properties of ShowNodeSQL
\* ---------------------------------------------------------------------------

\* C24: showSQL debounces the tree selections. Each call cancels the pending
\* timer of the call before it, so at every moment at most one timer is
\* pending, it is the one of the last call and, while showSQL listens to the
\* tree, it is for the node selected last; a SQL request starts only when that
\* one timer runs, and it is for the node of the last call.
C24_ShowSQLDebounces ==
    /\ [](/\ Cardinality(timers) <= 1
          /\ \A tm \in timers : tm.id = timeout /\ (subs > 0 => tm.node = selected))
    /\ [][\A n \in Nodes :
            (n \notin inflight /\ n \in inflight')
                => timers = {[id |-> timeout, node |-> n]} /\ timers' = {}]_vars

\* two calls of showSQL, the second for node b before the timer of the first
\* had run: b's request is the only one started
C24_Witness ==
    /\ calls = 2
    /\ selected = "b"
    /\ timers = {}
    /\ inflight = {"b"}
    /\ nodeProp = "b"
    /\ editor = ""

\* C25: once no timer is pending and every response has arrived, the editor
\* shows the SQL of the node selected last (the node cached by the last timer
\* that ran), whatever the order of the responses.
C25_EditorShowsLastSelection ==
    (timers = {} /\ inflight = {} /\ nodeProp # NoNode)
        => editor = (IF hasSQL(nodeProp) THEN SqlOf(nodeProp) ELSE NODE_HAS_NO_SQL)

Sections == {"pre_data", "data", "post_data"}
TypeObjs == {"only_data", "only_schema", "only_tablespaces", "only_roles"}

\* the switches in the order of the schema
Fields == <<"pre_data", "data", "post_data",
            "only_data", "only_schema", "only_tablespaces", "only_roles",
            "include_create_database", "include_drop_database", "if_exists">>

FieldIds == {Fields[i] : i \in 1..Len(Fields)}

\* deps of each field; the deps of if_exists is the one string
\* 'only_data, include_drop_database'
deps(f) ==
    CASE f \in Sections -> TypeObjs
      [] f \in TypeObjs -> Sections \cup (TypeObjs \ {f})
      [] f = "include_create_database" -> {}
      [] f = "include_drop_database" -> {"only_data"}
      [] f = "if_exists" -> {"only_data, include_drop_database"}

\* disabled of only_roles that does not look at only_tablespaces
disabledForgettingTablespaces(f, st) ==
    CASE f \in Sections -> \E t \in TypeObjs : st[t]
      [] f = "only_roles" -> \E g \in Sections \cup {"only_data", "only_schema"} : st[g]
      [] f \in TypeObjs -> \E g \in Sections \cup (TypeObjs \ {f}) : st[g]
      [] f = "include_create_database" -> FALSE
      [] f = "include_drop_database" -> st["only_data"]
      [] f = "if_exists" -> ~st["include_drop_database"]

\* what disabled(state) of the field returns
disabled(f, st) ==
    CASE f \in Sections -> \E t \in TypeObjs : st[t]
      [] f \in TypeObjs -> \E g \in Sections \cup (TypeObjs \ {f}) : st[g]
      [] f = "include_create_database" -> FALSE
      [] f = "include_drop_database" -> st["only_data"]
      [] f = "if_exists" -> ~st["include_drop_database"]

\* what disabled(state) of the field does to the state: include_drop_database
\* and if_exists switch themselves off when they return true
evaluated(f, st) ==
    IF f \in {"include_drop_database", "if_exists"} /\ disabled(f, st)
      THEN [st EXCEPT ![f] = FALSE]
      ELSE st

\* the fields of R are evaluated one after the other in the order of the schema
RECURSIVE Reevaluate(_, _, _)
Reevaluate(i, R, sr) ==
    IF i > Len(Fields) THEN sr
    ELSE IF Fields[i] \in R
      THEN Reevaluate(i + 1, R,
              [st |-> evaluated(Fields[i], sr.st),
               dis |-> [sr.dis EXCEPT ![Fields[i]] = disabled(Fields[i], sr.st)]])
      ELSE Reevaluate(i + 1, R, sr)

AllOff == [f \in FieldIds |-> FALSE]

SwFrame == UNCHANGED <<schedVars, calcVars, storeVars, diffVars, dlgVars, sizeVars, sqlVars, treeVars>>

\* the dialog opens with every switch off and every field evaluated once
SwInit ==
    /\ SchedIdle
    /\ CalcIdle
    /\ StoreIdle
    /\ DiffIdle
    /\ DlgIdle
    /\ SizeIdle
    /\ SqlIdle
    /\ TreeIdle
    /\ switches = AllOff
    /\ rendered = [f \in FieldIds |-> disabled(f, AllOff)]

\* the fields whose disabled(state) writes the state
Writers == {"include_drop_database", "if_exists"}

\* the user flips a switch that is not disabled. Every field that names the
\* switch in its deps is evaluated again; whether the form evaluates further
\* fields on that occasion is not decided by the schema, so any set X of
\* further fields may be evaluated as well (evaluating again a field none of
\* whose deps changed returns what it returned before, except for if_exists,
\* whose deps name no field)
Change(f, X) ==
    /\ ~rendered[f]
    /\ LET R  == {g \in FieldIds : f \in deps(g)} \cup X
           sr == Reevaluate(1, R, [st |-> [switches EXCEPT ![f] = ~switches[f]], dis |-> rendered])
       IN  /\ switches' = sr.st
           /\ rendered' = sr.dis
    /\ SwFrame

SwNext == \E f \in FieldIds, X \in SUBSET Writers : Change(f, X)

SwSpec == SwInit /\ [][SwNext]_vars

\* C27: starting with every switch off and changing only switches that are
\* not disabled, no Sections switch is on together with a type-of-objects
\* switch, and at most one type-of-objects switch is on.
C27_SectionsExcludeTypeOfObjects ==
    /\ \A s \in Sections, t \in TypeObjs : ~(switches[s] /\ switches[t])
    /\ Cardinality({t \in TypeObjs : switches[t]}) <= 1

\* only_roles is on, and with it every Sections switch and every other
\* type-of-objects switch is disabled
C27_Witness ==
    /\ switches["only_roles"]
    /\ \A g \in Sections \cup (TypeObjs \ {"only_roles"}) : rendered[g] /\ ~switches[g]
    /\ ~rendered["only_roles"]

\* C28: after the fields have been evaluated following a change, if_exists is
\* on only if include_drop_database is on, and include_drop_database is on
\* only if only_data is off.
C28_QueryOptionsFollowTheirDeps ==
    /\ switches["if_exists"] => switches["include_drop_database"]
    /\ switches["include_drop_database"] => ~switches["only_data"]

\* ---------------------------------------------------------------------------
\* Backup dialog: the object selection of the tree (objects.depChange)
\* ---------------------------------------------------------------------------

MaxObjects == 3          \* at most this many checked nodes

\* the kinds of object depChange collects besides schemas
ObjTypes == {"table", "view", "materialized view", "foreign table", "sequence"}

\* node.data of the nodes of a small tree: schema s1 fully selected, schema s2
\* partly selected, objects of both and the collection node Tables of s1
Node(nm, tp, sch, isSch, ind, coll) ==
    [name |-> nm, type |-> tp, schema |-> sch, is_schema |-> isSch,
     isIndeterminate |-> ind, is_collection |-> coll]

TreeNodes ==
    { Node("s1", "schema", "", TRUE, FALSE, FALSE),
      Node("s2", "schema", "", TRUE, TRUE, FALSE),
      Node("t1", "table", "s1", FALSE, FALSE, FALSE),
      Node("v1", "view", "s1", FALSE, FALSE, FALSE),
      Node("t2", "table", "s2", FALSE, FALSE, FALSE),
      Node("Tables", "table", "s1", FALSE, FALSE, TRUE) }

\* the lists of checked nodes: every order of up to MaxObjects different nodes
ObjectLists ==
    UNION { { q \in [1..n -> TreeNodes] : \A i, j \in 1..n : q[i] = q[j] => i = j }
            : n \in 0..MaxObjects }

\* Array.prototype.includes
Includes(q, x) == \E i \in 1..Len(q) : q[i] = x

\* let selectedNodeCollection = {'schema': [], 'table': [], ...}
EmptyCollection == [k \in {"schema"} \cup ObjTypes |-> <<>>]

\* the body of the forEach for one node
Visit(coll, node) ==
    IF node.is_schema /\ ~node.isIndeterminate
      THEN [coll EXCEPT !["schema"] = Append(@, node.name)]
    ELSE IF /\ node.type \in ObjTypes
            /\ ~node.is_collection
            /\ ~Includes(coll["schema"], node.schema)
      THEN [coll EXCEPT ![node.type] = Append(@, node)]
      ELSE coll

RECURSIVE VisitAll(_, _, _)
VisitAll(coll, q, i) ==
    IF i > Len(q) THEN coll ELSE VisitAll(Visit(coll, q[i]), q, i + 1)

\* depChange: (state) => ... return {'objects': selectedNodeCollection}
depChange(q) == [objects |-> VisitAll(EmptyCollection, q, 1)]

TreeFrame == UNCHANGED <<schedVars, calcVars, storeVars, diffVars, dlgVars, sizeVars, sqlVars, swVars>>

TreeInit ==
    /\ SchedIdle
    /\ CalcIdle
    /\ StoreIdle
    /\ DiffIdle
    /\ DlgIdle
    /\ SizeIdle
    /\ SqlIdle
    /\ SwIdle
    /\ objects \in ObjectLists
    /\ selection = [objects |-> <<>>]

DepChange ==
    /\ selection = [objects |-> <<>>]
    /\ selection' = depChange(objects)
    /\ UNCHANGED objects
    /\ TreeFrame

TreeNext == DepChange

TreeSpec == TreeInit /\ [][TreeNext]_vars

\* C29: the selection depChange computes never lists a table, view,
\* materialized view, foreign table or sequence whose schema is listed as a
\* fully selected schema, in whatever order the checked nodes are visited.
C29_NoObjectOfASelectedSchema ==
    selection # [objects |-> <<>>] =>
        \A tp \in ObjTypes : \A i \in 1..Len(selection.objects[tp]) :
            ~Includes(selection.objects["schema"], selection.objects[tp][i].schema)

\* ---------------------------------------------------------------------------
\* parseAndColorCodeDiff: the text of the result
\* ---------------------------------------------------------------------------

NewLine == "\n"
SpanClose == "</span>"

\* <span class="...">
SpanOpen(class) == "<span class=\"" \o class \o "\">"

SpanClasses == {"diff-added", "diff-removed", "diff-modified"}

SpanTokens == {SpanOpen(c) : c \in SpanClasses} \cup {SpanClose}

\* what one line adds to coloredDiff, with the newline of the unwrapped line
\* forgotten
appendedWithoutNewline(sp) ==
    IF sp.class = "plain"
      THEN sp.line
      ELSE <<SpanOpen(sp.class)>> \o sp.line \o <<SpanClose, NewLine>>

\* what one line adds to coloredDiff:
\* `<span class="diff-added">${line}</span>\n` or line + '\n'
appended(sp) ==
    IF sp.class = "plain"
      THEN sp.line \o <<NewLine>>
      ELSE <<SpanOpen(sp.class)>> \o sp.line \o <<SpanClose, NewLine>>

\* the string the function returns
RECURSIVE coloredText(_, _)
coloredText(spans, i) ==
    IF i > Len(spans) THEN <<>> ELSE appended(spans[i]) \o coloredText(spans, i + 1)

\* the argument as one string: the lines joined by newlines
RECURSIVE joined(_, _)
joined(d, i) ==
    IF i > Len(d) THEN <<>>
    ELSE IF i = Len(d) THEN d[i]
    ELSE d[i] \o <<NewLine>> \o joined(d, i + 1)

\* String.prototype.split('\n')
RECURSIVE split(_, _, _)
split(text, i, piece) ==
    IF i > Len(text) THEN <<piece>>
    ELSE IF text[i] = NewLine THEN <<piece>> \o split(text, i + 1, <<>>)
    ELSE split(text, i + 1, Append(piece, text[i]))

\* the text with the span wrappers removed
StripSpans(text) == SelectSeq(text, LAMBDA tok : tok \notin SpanTokens)

\* C30: the function returns null for empty input; otherwise the result has
\* one line per line of the input, in order, each either the input line itself
\* or the input line wrapped in one span of one class, the class being the
\* first of added, removed, modified whose regular expression matches, and the
\* result with the span wrappers removed is the input followed by one newline.
C30_ColoringKeepsTheText ==
    coloredDiff.ret # "unset" =>
        IF diffSQL = <<>> \/ diffSQL = << <<>> >>
          THEN coloredDiff.ret = "null"
          ELSE LET out      == coloredText(coloredDiff.spans, 1)
                   outLines == split(out, 1, <<>>)
               IN  /\ coloredDiff.ret = "string"
                   /\ split(joined(diffSQL, 1), 1, <<>>) = diffSQL
                   /\ Len(outLines) = Len(diffSQL) + 1
                   /\ outLines[Len(outLines)] = <<>>
                   /\ \A i \in 1..Len(diffSQL) :
                        LET line == diffSQL[i]
                            wrappedAs(c) == outLines[i] = <<SpanOpen(c)>> \o line \o <<SpanClose>>
                        IN  /\ \/ outLines[i] = line
                               \/ \E c \in SpanClasses : wrappedAs(c)
                            /\ addedRegex(line) => wrappedAs("diff-added")
                            /\ ~addedRegex(line) /\ removedRegex(line) => wrappedAs("diff-removed")
                            /\ ~addedRegex(line) /\ ~removedRegex(line) /\ modifiedRegex(line)
                                 => wrappedAs("diff-modified")
                   /\ StripSpans(out) = joined(diffSQL, 1) \o <<NewLine>>

\* "CREATE x\n": the first line is wrapped as added, the empty second line is
\* kept as it is
C30_Witness ==
    /\ diffSQL = << <<"CREATE", " ", "x">>, <<>> >>
    /\ coloredDiff.ret = "string"
    /\ coloredDiff.spans[1].class = "diff-added"
    /\ coloredDiff.spans[2] = [class |-> "plain", line |-> <<>>]

=============================================================================
